---- MODULE Spec2Model ----
(***************************************************************************)
(* Banner composition pipeline of phontom (src/core/generator.py) and the  *)
(* Style model that parametrises it (src/core/styles.py).                  *)
(*                                                                         *)
(* Text is modelled as a sequence of one-column characters.  A terminal    *)
(* escape sequence (a colorama code) is one element of such a sequence: a  *)
(* non-printing decoration token.  A color spec is a sequence of lexical   *)
(* tokens ("gradient:", "-", and names), its Python string being their     *)
(* concatenation.                                                          *)
(***************************************************************************)
EXTENDS Integers, Sequences, FiniteSets, TLC

VARIABLES
    pc,             \* position of the caller: "ready", "styled", "returned", "raised"
    style,          \* BannerGenerator.style
    ascii_art,      \* BannerGenerator._ascii_art
    styled_output,  \* BannerGenerator._styled_output
    stage,          \* the successive values of the local `lines` in _apply_styling
    figlet,         \* the installed glyph renderer: font name -> outcome
    calls,          \* renderer invocations made by the last render call
    render_style,   \* the local render_style of the last render call
    seen,           \* every (effective style, returned string) of the render calls so far
    last,           \* the last call on the generator or an exporter, and what it found
    objs,           \* the Style objects: identity -> fields and shadowed attributes
    ref,            \* the holders of a Style: holder -> identity (0: holds none)
    op,             \* the last call made on Style, with the objects before it
    nops            \* number of calls made on Style

fvars ==
    <<pc, style, ascii_art, styled_output, stage, figlet, calls, render_style, seen, last>>
svars == <<objs, ref, op, nops>>
vars == <<fvars, svars>>

----------------------------------------------------------------------------
(* Bounds of the model *)

MaxArtLen == 3
MaxRows == 9
MaxPadding == 2
MaxStops == 3
MaxColorArtLen == 2
MaxFacadeRows == 2
MaxOps == 3

----------------------------------------------------------------------------
(* Python values *)

\* Python None; no str is this one-token sequence.
None == << "<None>" >>

NL == "\n"
SP == " "

\* Characters str.strip() removes.
Whitespace == {" ", "\t", "\n", "\r"}

Max(S) == CHOOSE m \in S : \A n \in S : n <= m

\* ' ' * n  (empty for n <= 0)
Spaces(n) == [i \in 1..n |-> SP]

\* c * n for a string c
RECURSIVE Repeat(_, _)
Repeat(c, n) == IF n <= 0 THEN << >> ELSE c \o Repeat(c, n - 1)

\* str.split(sep) for a one-element separator
RECURSIVE SplitOn(_, _)
SplitOn(s, sep) ==
    IF \A i \in 1..Len(s) : s[i] # sep
    THEN << s >>
    ELSE LET i == CHOOSE k \in 1..Len(s) :
                      s[k] = sep /\ \A j \in 1..(k - 1) : s[j] # sep
         IN  << SubSeq(s, 1, i - 1) >> \o SplitOn(SubSeq(s, i + 1, Len(s)), sep)

\* str.split('\n')
Split(s) == SplitOn(s, NL)

\* '\n'.join(lines)
RECURSIVE Join(_)
Join(lines) ==
    IF lines = << >> THEN << >>
    ELSE IF Len(lines) = 1 THEN lines[1]
    ELSE lines[1] \o << NL >> \o Join(Tail(lines))

\* line.strip()
RECURSIVE LStrip(_)
LStrip(line) ==
    IF line # << >> /\ Head(line) \in Whitespace THEN LStrip(Tail(line)) ELSE line

RECURSIVE RStrip(_)
RStrip(line) ==
    IF line # << >> /\ line[Len(line)] \in Whitespace
    THEN RStrip(SubSeq(line, 1, Len(line) - 1))
    ELSE line

Strip(line) == RStrip(LStrip(line))

\* Mutant of LJust: the line is not extended to the width
LJustNone(line, width) == line

\* line.ljust(width)
LJust(line, width) == line \o Spaces(width - Len(line))

----------------------------------------------------------------------------
(* Style model *)

BorderNONE == "BorderStyle.NONE"
BorderSINGLE == "BorderStyle.SINGLE"
BorderDOUBLE == "BorderStyle.DOUBLE"
BorderROUNDED == "BorderStyle.ROUNDED"
BorderBOLD == "BorderStyle.BOLD"
BorderASCII == "BorderStyle.ASCII"
BorderSTAR == "BorderStyle.STAR"
BorderHASH == "BorderStyle.HASH"

BorderStyle ==
    {BorderNONE, BorderSINGLE, BorderDOUBLE, BorderROUNDED,
     BorderBOLD, BorderASCII, BorderSTAR, BorderHASH}

\* Style(): the dataclass defaults
DefaultStyle ==
    [font |-> "standard", color |-> None, background_color |-> None,
     border |-> BorderNONE, border_color |-> None, padding |-> 0,
     width |-> 80, alignment |-> "left", compact |-> FALSE, shadow |-> FALSE,
     shadow_color |-> << "bright_black" >>, bold |-> FALSE, italic |-> FALSE,
     underline |-> FALSE]

Glyphs(tl, tr, bl, br, h, v) ==
    [tl |-> tl, tr |-> tr, bl |-> bl, br |-> br, h |-> h, v |-> v]

\* The `borders` table of Style.get_border_chars; a box-drawing character is
\* named by its code point and is one column wide.
Borders ==
    [b \in BorderStyle |->
        CASE b = BorderNONE    -> Glyphs(<< >>, << >>, << >>, << >>, << >>, << >>)
          [] b = BorderSINGLE  -> Glyphs(<<"U+250C">>, <<"U+2510">>, <<"U+2514">>,
                                         <<"U+2518">>, <<"U+2500">>, <<"U+2502">>)
          [] b = BorderDOUBLE  -> Glyphs(<<"U+2554">>, <<"U+2557">>, <<"U+255A">>,
                                         <<"U+255D">>, <<"U+2550">>, <<"U+2551">>)
          [] b = BorderROUNDED -> Glyphs(<<"U+256D">>, <<"U+256E">>, <<"U+2570">>,
                                         <<"U+256F">>, <<"U+2500">>, <<"U+2502">>)
          [] b = BorderBOLD    -> Glyphs(<<"U+250F">>, <<"U+2513">>, <<"U+2517">>,
                                         <<"U+251B">>, <<"U+2501">>, <<"U+2503">>)
          [] b = BorderASCII   -> Glyphs(<<"+">>, <<"+">>, <<"+">>, <<"+">>,
                                         <<"-">>, <<"|">>)
          [] b = BorderSTAR    -> Glyphs(<<"*">>, <<"*">>, <<"*">>, <<"*">>,
                                         <<"*">>, <<"*">>)
          [] b = BorderHASH    -> Glyphs(<<"#">>, <<"#">>, <<"#">>, <<"#">>,
                                         <<"#">>, <<"#">>)]

\* Style.get_border_chars: borders.get(self.border, borders[BorderStyle.NONE])
GetBorderChars(s) ==
    IF s.border \in DOMAIN Borders THEN Borders[s.border] ELSE Borders[BorderNONE]

----------------------------------------------------------------------------
(* Layout transforms *)

\* max(len(line) for line in lines), evaluated by the code on non-empty blocks
\* only; 0 for the empty block.
MaxWidth(lines) ==
    IF lines = << >> THEN 0 ELSE Max({Len(lines[i]) : i \in 1..Len(lines)})

\* Mutant of Compact: `if line` in place of `if line.strip()`
RECURSIVE CompactEmptyOnly(_)
CompactEmptyOnly(lines) ==
    IF lines = << >> THEN << >>
    ELSE IF Head(lines) # << >>
         THEN << Head(lines) >> \o CompactEmptyOnly(Tail(lines))
         ELSE CompactEmptyOnly(Tail(lines))

\* [line for line in lines if line.strip()]
RECURSIVE Compact(_)
Compact(lines) ==
    IF lines = << >> THEN << >>
    ELSE IF Strip(Head(lines)) # << >>
         THEN << Head(lines) >> \o Compact(Tail(lines))
         ELSE Compact(Tail(lines))

\* Mutant of ApplyPadding: the blank lines are added above the block only
ApplyPaddingTopOnly(lines, padding) ==
    [i \in 1..padding |-> << >>] \o
    [i \in 1..Len(lines) |-> Spaces(padding) \o lines[i] \o Spaces(padding)]

\* BannerGenerator._apply_padding
ApplyPadding(lines, padding) ==
    LET vertical == [i \in 1..padding |-> << >>]
        content  == [i \in 1..Len(lines) |->
                        Spaces(padding) \o lines[i] \o Spaces(padding)]
    IN  vertical \o content \o vertical

\* BannerGenerator._apply_border
ApplyBorder(lines, s) ==
    IF lines = << >> THEN lines
    ELSE LET max_width    == MaxWidth(lines)
             border_chars == GetBorderChars(s)
             top     == border_chars.tl \o Repeat(border_chars.h, max_width + 2)
                            \o border_chars.tr
             content == [i \in 1..Len(lines) |->
                            border_chars.v \o << SP >> \o LJust(lines[i], max_width)
                                \o << SP >> \o border_chars.v]
             bottom  == border_chars.bl \o Repeat(border_chars.h, max_width + 2)
                            \o border_chars.br
         IN  << top >> \o content \o << bottom >>

----------------------------------------------------------------------------
(* Color assignment *)

\* colorama.Style.RESET_ALL
RESET_ALL == << "ESC[0m" >>

\* The color_map of _apply_colors (colorama.Fore codes)
ColorMap ==
    [black          |-> << "ESC[30m" >>, red            |-> << "ESC[31m" >>,
     green          |-> << "ESC[32m" >>, yellow         |-> << "ESC[33m" >>,
     blue           |-> << "ESC[34m" >>, magenta        |-> << "ESC[35m" >>,
     cyan           |-> << "ESC[36m" >>, white          |-> << "ESC[37m" >>,
     bright_black   |-> << "ESC[90m" >>, bright_red     |-> << "ESC[91m" >>,
     bright_green   |-> << "ESC[92m" >>, bright_yellow  |-> << "ESC[93m" >>,
     bright_blue    |-> << "ESC[94m" >>, bright_magenta |-> << "ESC[95m" >>,
     bright_cyan    |-> << "ESC[96m" >>, bright_white   |-> << "ESC[97m" >>]

GRADIENT == "gradient:"
DASH == "-"

\* name in color_map, for a name given as its tokens
InColorMap(name, color_map) == Len(name) = 1 /\ name[1] \in DOMAIN color_map

\* Mutant of GetColor: color_map.get(name, name)
GetColorEcho(name, color_map) ==
    IF InColorMap(name, color_map) THEN color_map[name[1]] ELSE name

\* color_map.get(name, '')
GetColor(name, color_map) ==
    IF InColorMap(name, color_map) THEN color_map[name[1]] ELSE << >>

\* style.color.startswith('gradient:')
IsGradient(color) == color # << >> /\ color[1] = GRADIENT

\* style.color.replace('gradient:', '').split('-')
GradientColors(color) ==
    SplitOn(SelectSeq(color, LAMBDA t : t # GRADIENT), DASH)

\* Mutant of ApplyGradient: `i <= num_lines // 2` in place of `<`
ApplyGradientOffByOne(lines, colors, color_map) ==
    LET num_lines == Len(lines) IN
    IF num_lines = 0 THEN lines
    ELSE IF Len(colors) = 2 /\ \A k \in 1..Len(colors) : InColorMap(colors[k], color_map)
    THEN [i \in 1..num_lines |->
             IF i - 1 <= num_lines \div 2
             THEN color_map[colors[1][1]] \o lines[i] \o RESET_ALL
             ELSE color_map[colors[2][1]] \o lines[i] \o RESET_ALL]
    ELSE [i \in 1..num_lines |-> GetColor(colors[1], color_map) \o lines[i] \o RESET_ALL]

\* BannerGenerator._apply_gradient
ApplyGradient(lines, colors, color_map) ==
    LET num_lines == Len(lines) IN
    IF num_lines = 0 THEN lines
    ELSE IF Len(colors) = 2 /\ \A k \in 1..Len(colors) : InColorMap(colors[k], color_map)
    THEN LET start_color == color_map[colors[1][1]]
             end_color   == color_map[colors[2][1]]
         IN  [i \in 1..num_lines |->
                 IF i - 1 < num_lines \div 2
                 THEN start_color \o lines[i] \o RESET_ALL
                 ELSE end_color \o lines[i] \o RESET_ALL]
    ELSE LET color == GetColor(colors[1], color_map)
         IN  [i \in 1..num_lines |-> color \o lines[i] \o RESET_ALL]

\* BannerGenerator._apply_colors
ApplyColors(lines, s) ==
    IF IsGradient(s.color)
    THEN ApplyGradient(lines, GradientColors(s.color), ColorMap)
    ELSE LET color_code == GetColor(s.color, ColorMap)
         IN  [i \in 1..Len(lines) |-> color_code \o lines[i] \o RESET_ALL]

\* Mutant of Truthy: every color counts as set
TruthyAlways(v) == TRUE

\* Truth value of an Optional[str]
Truthy(v) == v # None /\ v # << >>

----------------------------------------------------------------------------
(* BannerGenerator._apply_styling: the value of `lines` after each stage *)

ApplyStyling(art, s) ==
    LET split     == Split(art)
        compacted == IF s.compact THEN Compact(split) ELSE split
        padded    == IF s.padding # 0 THEN ApplyPadding(compacted, s.padding)
                     ELSE compacted
        framed    == IF s.border # BorderNONE THEN ApplyBorder(padded, s)
                     ELSE padded
        colored   == IF Truthy(s.color) THEN ApplyColors(framed, s) ELSE framed
    IN  [split |-> split, compacted |-> compacted, padded |-> padded,
         framed |-> framed, colored |-> colored]

NoStage ==
    [split |-> << >>, compacted |-> << >>, padded |-> << >>,
     framed |-> << >>, colored |-> << >>]

----------------------------------------------------------------------------
(* Style construction, copy and update *)

\* BorderStyle(value): the member with that value
BorderValues ==
    [none |-> BorderNONE, single |-> BorderSINGLE, double |-> BorderDOUBLE,
     rounded |-> BorderROUNDED, bold |-> BorderBOLD, ascii |-> BorderASCII,
     star |-> BorderSTAR, hash |-> BorderHASH]

\* The members of the Alignment enum: values that are not str
Alignment == {"Alignment.LEFT", "Alignment.CENTER", "Alignment.RIGHT"}

IsStr(v) == v \notin Alignment /\ v \notin BorderStyle

\* str.lower() on the alignment strings of the model
Lower(a) ==
    CASE a = "LEFT" -> "left"
      [] a = "Left" -> "left"
      [] a = "Center" -> "center"
      [] a = "CENTER" -> "center"
      [] a = "RIGHT" -> "right"
      [] a = "Right" -> "right"
      [] a = "MIDDLE" -> "middle"
      [] OTHER -> a

\* Style.__post_init__ raises ValueError: the border is a str that is no value
\* of BorderStyle
PostInitRaises(s) == s.border \notin BorderStyle /\ s.border \notin DOMAIN BorderValues

\* Mutant of PostInit: the alignment is compared without lower-casing it
PostInitNoLower(s) ==
    [s EXCEPT
        !.border = IF s.border \in BorderStyle THEN s.border ELSE BorderValues[s.border],
        !.alignment = IF ~IsStr(s.alignment) \/ s.alignment \in {"left", "center", "right"}
                      THEN s.alignment ELSE "left"]

\* Style.__post_init__
PostInit(s) ==
    [s EXCEPT
        !.border = IF s.border \in BorderStyle THEN s.border ELSE BorderValues[s.border],
        !.alignment = IF ~IsStr(s.alignment) THEN s.alignment
                      ELSE IF Lower(s.alignment) \in {"left", "center", "right"}
                      THEN Lower(s.alignment) ELSE "left"]

\* Style.copy: Style(**asdict(self))
Copy(s) == PostInit(s)

\* Style.update: setattr for every key the style has
Update(s, kwargs) ==
    [f \in DOMAIN s |-> IF f \in DOMAIN kwargs THEN kwargs[f] ELSE s[f]]

\* The fields of the Style dataclass
Fields == DOMAIN DefaultStyle

\* The other attributes hasattr finds on a Style: its methods
Methods ==
    {"copy", "update", "to_dict", "from_dict", "get_border_chars",
     "load_from_template", "_get_default_templates", "apply_color_scheme"}

\* What a call on Style gives: an exception, or the fields of the new Style
Raise(exc) == [raised |-> exc, f |-> DefaultStyle]
Return(f) == [raised |-> "none", f |-> f]

\* Style(**args): the generated __init__, then __post_init__
NewStyle(args) ==
    IF ~(DOMAIN args \subseteq Fields) THEN Raise("TypeError")
    ELSE IF PostInitRaises(Update(DefaultStyle, args)) THEN Raise("ValueError")
    ELSE Return(PostInit(Update(DefaultStyle, args)))

\* Style.from_dict
FromDict(data) ==
    IF "border" \in DOMAIN data /\ IsStr(data.border)
    THEN NewStyle([k \in DOMAIN data |->
            IF k # "border" THEN data[k]
            ELSE IF data.border \in DOMAIN BorderValues
                 THEN BorderValues[data.border] ELSE BorderNONE])
    ELSE NewStyle(data)

\* Style._get_default_templates
DefaultTemplates ==
    [corporate |-> [font |-> "standard", border |-> "double", color |-> << "blue" >>,
                    padding |-> 2, alignment |-> "center"],
     retro     |-> [font |-> "3-d", border |-> "star",
                    color |-> << GRADIENT, "magenta", DASH, "cyan" >>,
                    shadow |-> TRUE, padding |-> 1],
     minimal   |-> [font |-> "small", border |-> "none", color |-> << "white" >>,
                    compact |-> TRUE],
     fancy     |-> [font |-> "slant", border |-> "rounded",
                    color |-> << GRADIENT, "blue", DASH, "cyan" >>,
                    padding |-> 2, shadow |-> TRUE],
     terminal  |-> [font |-> "digital", border |-> "single", color |-> << "green" >>,
                    padding |-> 1, width |-> 100],
     banner    |-> [font |-> "banner", border |-> "double", color |-> << "yellow" >>,
                    padding |-> 1, alignment |-> "center"],
     matrix    |-> [font |-> "digital", color |-> << "bright_green" >>,
                    background_color |-> << "black" >>, border |-> "none",
                    shadow |-> TRUE],
     neon      |-> [font |-> "big", color |-> << GRADIENT, "magenta", DASH, "cyan" >>,
                    border |-> "rounded", shadow |-> TRUE,
                    shadow_color |-> << "bright_magenta" >>]]

\* A template file <name>.yaml of the template directory: absent, or the
\* mapping yaml.safe_load reads from it
NoFile == [exists |-> FALSE, data |-> << >>]
File(data) == [exists |-> TRUE, data |-> data]

\* Mutant of LoadFromTemplate: an unknown name gives the default style
LoadFromTemplateDefault(template_name, file) ==
    IF file.exists THEN FromDict(file.data)
    ELSE IF template_name \in DOMAIN DefaultTemplates
    THEN FromDict(DefaultTemplates[template_name])
    ELSE NewStyle(<< >>)

\* Mutant of LoadFromTemplate: every built-in name gives the first template
LoadFromTemplateFirst(template_name, file) ==
    IF file.exists THEN FromDict(file.data)
    ELSE IF template_name \in DOMAIN DefaultTemplates
    THEN FromDict(DefaultTemplates["corporate"])
    ELSE Raise("FileNotFoundError")

\* Style.load_from_template
LoadFromTemplate(template_name, file) ==
    IF file.exists THEN FromDict(file.data)
    ELSE IF template_name \in DOMAIN DefaultTemplates
    THEN FromDict(DefaultTemplates[template_name])
    ELSE Raise("FileNotFoundError")

\* The members of the ColorScheme enum
ColorScheme ==
    {"ColorScheme.DEFAULT", "ColorScheme.RAINBOW", "ColorScheme.OCEAN",
     "ColorScheme.FIRE", "ColorScheme.FOREST", "ColorScheme.SUNSET",
     "ColorScheme.NEON", "ColorScheme.MONOCHROME"}

Grad(a, b) == << GRADIENT, a, DASH, b >>

\* Mutant of Schemes: every scheme also sets the padding
SchemesWithPadding ==
    [sch \in ColorScheme \ {"ColorScheme.DEFAULT"} |->
        [color |-> << "white" >>, border_color |-> << "white" >>, padding |-> 1]]

\* The `schemes` table of Style.apply_color_scheme
Schemes ==
    [sch \in ColorScheme \ {"ColorScheme.DEFAULT"} |->
        CASE sch = "ColorScheme.RAINBOW" ->
                [color |-> Grad("red", "yellow"), border_color |-> << "magenta" >>]
          [] sch = "ColorScheme.OCEAN" ->
                [color |-> Grad("blue", "cyan"), border_color |-> << "blue" >>,
                 shadow_color |-> << "bright_blue" >>]
          [] sch = "ColorScheme.FIRE" ->
                [color |-> Grad("red", "yellow"), border_color |-> << "red" >>,
                 shadow_color |-> << "bright_red" >>]
          [] sch = "ColorScheme.FOREST" ->
                [color |-> Grad("green", "bright_green"), border_color |-> << "green" >>,
                 shadow_color |-> << "green" >>]
          [] sch = "ColorScheme.SUNSET" ->
                [color |-> Grad("magenta", "yellow"), border_color |-> << "magenta" >>]
          [] sch = "ColorScheme.NEON" ->
                [color |-> Grad("bright_magenta", "bright_cyan"),
                 border_color |-> << "bright_magenta" >>, shadow |-> TRUE]
          [] sch = "ColorScheme.MONOCHROME" ->
                [color |-> << "white" >>, border_color |-> << "bright_black" >>,
                 shadow_color |-> << "bright_black" >>]]

\* A Style object: its fields, and the methods an instance attribute shadows
Obj(f, shadow) == [f |-> f, shadow |-> shadow]

\* Calling obj.method(...) when an instance attribute shadows the method
NotCallable(o, method) == method \in o.shadow

\* What a call on a Style object gives: an exception, or the object after it
RaiseIn(o, exc) == [raised |-> exc, obj |-> o]
Updated(o) == [raised |-> "none", obj |-> o]

\* Mutant of UpdateObj: nothing is assigned
UpdateObjNothing(o, kwargs) ==
    IF NotCallable(o, "update") THEN RaiseIn(o, "TypeError") ELSE Updated(o)

\* obj.update(**kwargs): setattr for every key hasattr finds, on obj itself
UpdateObj(o, kwargs) ==
    IF NotCallable(o, "update") THEN RaiseIn(o, "TypeError")
    ELSE Updated(Obj(Update(o.f, kwargs), o.shadow \cup (DOMAIN kwargs \cap Methods)))

\* obj.copy(): a new object (no instance attribute is carried over)
CopyObj(o) ==
    IF NotCallable(o, "copy") THEN Raise("TypeError")
    ELSE IF PostInitRaises(o.f) THEN Raise("ValueError")
    ELSE Return(Copy(o.f))

\* Mutant of ApplyColorScheme: the color fields are reset before the scheme is
\* applied
ApplyColorSchemeReset(o, scheme) ==
    IF NotCallable(o, "apply_color_scheme") THEN RaiseIn(o, "TypeError")
    ELSE IF scheme \in DOMAIN Schemes
    THEN UpdateObj(Obj([o.f EXCEPT !.color = None, !.border_color = None,
                                   !.shadow = FALSE,
                                   !.shadow_color = DefaultStyle.shadow_color],
                       o.shadow),
                   Schemes[scheme])
    ELSE Updated(o)

\* The value of a BorderStyle member
BorderValue(member) == CHOOSE v \in DOMAIN BorderValues : BorderValues[v] = member

\* Style.to_dict: asdict(self), the border member as its value
ToDict(f) ==
    [f EXCEPT !.border = IF f.border \in BorderStyle THEN BorderValue(f.border)
                         ELSE f.border]

\* Style.from_dict(obj.to_dict())
RoundTripObj(o) ==
    IF NotCallable(o, "to_dict") THEN Raise("TypeError") ELSE FromDict(ToDict(o.f))

\* obj.apply_color_scheme(scheme)
ApplyColorScheme(o, scheme) ==
    IF NotCallable(o, "apply_color_scheme") THEN RaiseIn(o, "TypeError")
    ELSE IF scheme \in DOMAIN Schemes THEN UpdateObj(o, Schemes[scheme])
    ELSE Updated(o)

----------------------------------------------------------------------------
(* The glyph renderer (pyfiglet) and BannerGenerator.render *)

Fonts == {"standard", "slant", "nofont"}

FontNotFound == [status |-> "FontNotFound", art |-> << >>]
FigletError == [status |-> "FigletError", art |-> << >>]
Rendered(art) == [status |-> "ok", art |-> art]

\* pyfiglet.Figlet(font=..., width=..., justify=...).renderText(self.text)
FigletCall(font, width, justify) == [font |-> font, width |-> width, justify |-> justify]

\* Mutant of GenerateAsciiArt: FontNotFound is not caught
GenerateAsciiArtNoFallback(s, fig) ==
    [calls |-> << FigletCall(s.font, s.width, s.alignment) >>, result |-> fig[s.font]]

\* BannerGenerator._generate_ascii_art: the renderer invocations it makes, and
\* the art it stores or the exception it lets through
GenerateAsciiArt(s, fig) ==
    LET first  == FigletCall(s.font, s.width, s.alignment)
        second == FigletCall("standard", 80, "auto")
    IN  IF fig[s.font].status = "FontNotFound"
        THEN [calls |-> << first, second >>, result |-> fig["standard"]]
        ELSE [calls |-> << first >>, result |-> fig[s.font]]

\* What a render call leaves behind: whether it raised, the renderer calls it
\* made, _ascii_art, the stages, _styled_output, the local render_style,
\* self.style, and the string it returned (None when it raised)
RenderResult(raised, made, art, st, out, rs, sty, ret) ==
    [raised |-> raised, calls |-> made, ascii_art |-> art, stage |-> st,
     styled_output |-> out, render_style |-> rs, style |-> sty, returned |-> ret]

\* render once the glyph block is there: _apply_styling, return self._styled_output
StyledResult(gen, rs, sty) ==
    LET st == ApplyStyling(gen.result.art, rs)
    IN  RenderResult(FALSE, gen.calls, gen.result.art, st, Join(st.colored), rs, sty,
                     Join(st.colored))

\* Mutant of RenderCall: a renderer failure is swallowed and the cached
\* output is returned
RenderCallSwallow(self_style, kwargs, fig, old_art, old_output, old_stage) ==
    LET rs  == Update(Copy(self_style), kwargs)
        gen == GenerateAsciiArt(rs, fig)
    IN  IF gen.result.status # "ok"
        THEN RenderResult(FALSE, gen.calls, old_art, old_stage, old_output, rs,
                          self_style, old_output)
        ELSE StyledResult(gen, rs, self_style)

\* Mutant of RenderCall: a cached output is returned without rendering again
RenderCallCached(self_style, kwargs, fig, old_art, old_output, old_stage) ==
    LET rs  == Update(Copy(self_style), kwargs)
        gen == GenerateAsciiArt(rs, fig)
    IN  IF gen.result.status # "ok"
        THEN RenderResult(TRUE, gen.calls, old_art, old_stage, old_output, rs,
                          self_style, None)
        ELSE IF old_output # None
        THEN RenderResult(FALSE, gen.calls, old_art, old_stage, old_output, rs,
                          self_style, old_output)
        ELSE StyledResult(gen, rs, self_style)

\* Mutant of RenderCall: the overrides are applied to self.style itself
RenderCallInPlace(self_style, kwargs, fig, old_art, old_output, old_stage) ==
    LET rs  == Update(Copy(self_style), kwargs)
        gen == GenerateAsciiArt(rs, fig)
    IN  IF gen.result.status # "ok"
        THEN RenderResult(TRUE, gen.calls, old_art, old_stage, old_output, rs, rs, None)
        ELSE StyledResult(gen, rs, rs)

\* Mutant of RenderCall: a failing render clears the cached output
RenderCallClear(self_style, kwargs, fig, old_art, old_output, old_stage) ==
    LET rs  == Update(Copy(self_style), kwargs)
        gen == GenerateAsciiArt(rs, fig)
    IN  IF gen.result.status # "ok"
        THEN RenderResult(TRUE, gen.calls, None, NoStage, None, rs, self_style, None)
        ELSE StyledResult(gen, rs, self_style)

\* BannerGenerator.render(**kwargs)
RenderCall(self_style, kwargs, fig, old_art, old_output, old_stage) ==
    IF PostInitRaises(self_style)
    THEN RenderResult(TRUE, << >>, old_art, old_stage, old_output, self_style,
                      self_style, None)
    ELSE LET rs  == Update(Copy(self_style), kwargs)
             gen == GenerateAsciiArt(rs, fig)
         IN  IF gen.result.status # "ok"
             THEN RenderResult(TRUE, gen.calls, old_art, old_stage, old_output, rs,
                               self_style, None)
             ELSE StyledResult(gen, rs, self_style)

----------------------------------------------------------------------------
(* Inputs *)

SeqsUpTo(S, n) == UNION {[1..k -> S] : k \in 0..n}

\* Characters of a glyph block: blank, inked, line break
ArtChars == {SP, "x", NL}

\* k glyph rows, each ended by a line break, as the renderer emits them
Rows(k) == Repeat(<< "x", NL >>, k)

TallArts == {Rows(k) : k \in 0..MaxRows}

Arts == SeqsUpTo(ArtChars, MaxArtLen) \cup TallArts

LayoutColors ==
    {None, << "red" >>, << "zz" >>, << GRADIENT, "red", DASH, "yellow" >>}

LayoutStyles ==
    {[DefaultStyle EXCEPT !.compact = c, !.padding = p, !.border = b, !.color = col] :
        c \in BOOLEAN, p \in 0..MaxPadding, b \in BorderStyle, col \in LayoutColors}

\* One stop of a gradient spec, as written between the dashes
GradStops ==
    {<< >>, << "red" >>, << "yellow" >>, << "zz" >>, << GRADIENT, "yellow" >>}

RECURSIVE JoinStops(_)
JoinStops(stops) ==
    IF Len(stops) = 1 THEN stops[1]
    ELSE stops[1] \o << DASH >> \o JoinStops(Tail(stops))

GradientSpecs ==
    {<< GRADIENT >> \o JoinStops(stops) :
        stops \in UNION {[1..k -> GradStops] : k \in 1..MaxStops}}

PlainSpecs ==
    {None, << >>, << "red" >>, << "bright_cyan" >>, << "zz" >>,
     << "red", DASH, "yellow" >>}

ColorSpecs == PlainSpecs \cup GradientSpecs

ColorArts == SeqsUpTo(ArtChars, MaxColorArtLen) \cup TallArts

ColorStyles ==
    {[DefaultStyle EXCEPT !.compact = c, !.color = col] :
        c \in BOOLEAN, col \in ColorSpecs}

FacadeArts == {Rows(k) : k \in 0..MaxFacadeRows}

FacadeOutcomes == {FontNotFound, FigletError} \cup {Rendered(a) : a \in FacadeArts}

Renderers ==
    {f \in [Fonts -> FacadeOutcomes] : f["nofont"] = FontNotFound}

FacadeStyles ==
    {[DefaultStyle EXCEPT !.font = f, !.compact = c, !.padding = p, !.border = b,
                          !.color = col] :
        f \in Fonts, c \in BOOLEAN, p \in {0, 1}, b \in {BorderNONE, BorderSINGLE},
        col \in {None, << "red" >>}}

NoKwargs == [k \in {} |-> 0]

Kwargs ==
    {NoKwargs, [font |-> "nofont"], [font |-> "slant", padding |-> 1],
     [color |-> << "yellow" >>]}

NoRenderer == [f \in Fonts |-> FontNotFound]

\* Per-render border overrides given by name
BorderKwargs == {[border |-> b] : b \in DOMAIN BorderValues}

\* The exporter methods that render without color: TextExporter.get_raw_output,
\* TextExporter.export(include_colors=False), HTMLExporter._generate_banner_html,
\* ImageExporter._export_png and _export_svg
Exporters ==
    {"get_raw_output", "export", "_generate_banner_html", "_export_png", "_export_svg"}

\* Those of them that make the render call inside try ... except Exception
Catching == {"export", "_export_png", "_export_svg"}

\* No call made yet: what the last call was, generator.style and _styled_output
\* before it, what it gave, and the string of the latest render that returned
NoCall ==
    [call |-> "none", kwargs |-> NoKwargs, style |-> DefaultStyle, output |-> None,
     returned |-> None, result |-> "none", rendered |-> None]

\* Arguments of Style(...)
CtorArgs ==
    {NoKwargs, [alignment |-> "CENTER"], [alignment |-> "Right", border |-> BorderDOUBLE],
     [alignment |-> "middle", border |-> "single"], [alignment |-> "MIDDLE", padding |-> 1],
     [alignment |-> "Alignment.CENTER"], [border |-> "bogus"]}

\* Arguments of update(...)
UpdateKwargs ==
    {[alignment |-> "CENTER"], [alignment |-> "middle"], [border |-> "single"],
     [border |-> "bogus"], [padding |-> 2, bogus |-> 1], [copy |-> 0],
     [color |-> << "red" >>, font |-> "slant"]}

\* Arguments of from_dict, and contents of template files
Dicts ==
    {[font |-> "slant", border |-> "star"], [border |-> "bogus", alignment |-> "CENTER"],
     [border |-> BorderBOLD], [font |-> "big", colour |-> << "red" >>]}

TemplateNames == DOMAIN DefaultTemplates \cup {"custom", "nosuch"}

\* What the template directory can hold under a name
FilesOf(template_name) ==
    IF template_name \in {"corporate", "custom"}
    THEN {NoFile, File([font |-> "slant", border |-> "star"]),
          File([border |-> "bogus", alignment |-> "CENTER"])}
    ELSE {NoFile}

SchemeArgs == ColorScheme

\* Object identities, and the holders of a Style: the caller's variable and a
\* second holder (a copy, or a generator's self.style)
Ids == {"o1", "o2"}
Holders == {"a", "b"}
Null == "null"

NoObjs == [i \in Ids |-> Obj(DefaultStyle, {})]

NoOp ==
    [name |-> "none", holder |-> "a", kwargs |-> NoKwargs, template |-> "",
     file |-> NoFile, scheme |-> "ColorScheme.DEFAULT", raised |-> "none",
     returned |-> "nothing", pre |-> NoObjs, preref |-> [h \in Holders |-> Null]]

\* The call `name` made through holder h
Call(name, h) == [NoOp EXCEPT !.name = name, !.holder = h, !.pre = objs, !.preref = ref]

\* The facade is not in use
FacadeIdle ==
    /\ pc = "ready"
    /\ style = DefaultStyle
    /\ ascii_art = None
    /\ styled_output = None
    /\ stage = NoStage
    /\ figlet = NoRenderer
    /\ calls = << >>
    /\ render_style = DefaultStyle
    /\ seen = {}
    /\ last = NoCall

\* No call on Style is followed
StyleIdle ==
    /\ objs = NoObjs
    /\ ref = [h \in Holders |-> Null]
    /\ op = NoOp
    /\ nops = 0

----------------------------------------------------------------------------
(* Specifications *)

\* _apply_styling on every glyph block and layout
InitLayout ==
    /\ pc = "ready"
    /\ style \in LayoutStyles
    /\ ascii_art \in Arts
    /\ styled_output = None
    /\ stage = NoStage
    /\ figlet = NoRenderer
    /\ calls = << >>
    /\ render_style = DefaultStyle
    /\ seen = {}
    /\ last = NoCall
    /\ StyleIdle

\* _apply_styling on every color spec
InitColor ==
    /\ pc = "ready"
    /\ style \in ColorStyles
    /\ ascii_art \in ColorArts
    /\ styled_output = None
    /\ stage = NoStage
    /\ figlet = NoRenderer
    /\ calls = << >>
    /\ render_style = DefaultStyle
    /\ seen = {}
    /\ last = NoCall
    /\ StyleIdle

\* BannerGenerator(text, style) with some renderer installed
Init ==
    /\ pc = "ready"
    /\ style \in FacadeStyles
    /\ ascii_art = None
    /\ styled_output = None
    /\ stage = NoStage
    /\ figlet \in Renderers
    /\ calls = << >>
    /\ render_style = DefaultStyle
    /\ seen = {}
    /\ last = NoCall
    /\ StyleIdle

\* self._apply_styling(style)
Styling ==
    /\ pc = "ready"
    /\ stage' = ApplyStyling(ascii_art, style)
    /\ styled_output' = Join(stage'.colored)
    /\ pc' = "styled"
    /\ UNCHANGED <<style, ascii_art, figlet, calls, render_style, seen, last>>
    /\ UNCHANGED svars

\* BannerGenerator(text, style) for the border overrides: every font renders
InitBorder ==
    /\ pc = "ready"
    /\ style \in {st \in FacadeStyles : st.font = "standard"}
    /\ ascii_art = None
    /\ styled_output = None
    /\ stage = NoStage
    /\ figlet \in {f \in Renderers : f["standard"].status = "ok" /\ f["slant"] = f["standard"]}
    /\ calls = << >>
    /\ render_style = DefaultStyle
    /\ seen = {}
    /\ last = NoCall
    /\ StyleIdle

\* A call that makes one render call, with style.color set to None around it
\* when `plain`; an exception of the render call is caught when `catching`
Facade(call, plain, catching, kwargs) ==
    LET original_color == style.color
        self_style == IF plain THEN [style EXCEPT !.color = None] ELSE style
    IN  \E r \in {RenderCall(self_style, kwargs, figlet, ascii_art, styled_output, stage)} :
        /\ pc' = IF r.raised THEN "raised" ELSE "returned"
        /\ ascii_art' = r.ascii_art
        /\ stage' = r.stage
        /\ styled_output' = r.styled_output
        /\ calls' = r.calls
        /\ render_style' = r.render_style
        /\ seen' = IF r.raised THEN seen
                   ELSE seen \cup {<< r.render_style, r.returned >>}
        /\ style' = IF plain /\ ~r.raised
                    THEN [r.style EXCEPT !.color = original_color]
                    ELSE r.style
        /\ last' = [call |-> call, kwargs |-> kwargs, style |-> style,
                    output |-> styled_output, returned |-> r.returned,
                    result |-> IF ~r.raised THEN "returned"
                               ELSE IF catching THEN "False" ELSE "raised",
                    rendered |-> IF r.raised THEN last.rendered ELSE r.returned]
        /\ UNCHANGED figlet
        /\ UNCHANGED svars

\* No call is under way: calls are synchronous, the next starts when the last
\* has returned or raised
Idle == pc \in {"ready", "returned", "raised"}

\* generator.render(**kwargs)
Render ==
    \E kwargs \in Kwargs :
        /\ Idle
        /\ Facade("render", FALSE, FALSE, kwargs)

\* generator.render(border=<name>)
RenderBorder ==
    \E kwargs \in BorderKwargs :
        /\ Idle
        /\ Facade("render", FALSE, FALSE, kwargs)

\* An exporter's color-less render
Export ==
    \E e \in Exporters :
        /\ Idle
        /\ Facade(e, TRUE, e \in Catching, NoKwargs)

\* a = Style(): the state the calls on Style start from
InitStyle ==
    /\ FacadeIdle
    /\ objs = NoObjs
    /\ ref = [h \in Holders |-> IF h = "a" THEN "o1" ELSE Null]
    /\ op = [NoOp EXCEPT !.name = "Style", !.returned = "Style"]
    /\ nops = 0

\* An identity no other holder refers to
Fresh(h) ==
    IF ref[h] # Null /\ \A g \in Holders \ {h} : ref[g] # ref[h]
    THEN ref[h]
    ELSE CHOOSE i \in Ids : \A g \in Holders \ {h} : ref[g] # i

\* h = <a call that returns a new Style, or raises>
Bind(h, r, call) ==
    /\ nops < MaxOps
    /\ nops' = nops + 1
    /\ op' = [call EXCEPT !.raised = r.raised,
                          !.returned = IF r.raised = "none" THEN "Style" ELSE "nothing"]
    /\ IF r.raised = "none"
       THEN /\ objs' = [objs EXCEPT ![Fresh(h)] = Obj(r.f, {})]
            /\ ref' = [ref EXCEPT ![h] = Fresh(h)]
       ELSE UNCHANGED <<objs, ref>>
    /\ UNCHANGED fvars

\* <holder h>.method(...) for a method that works on the object and returns None
Mutate(h, r, call) ==
    /\ nops < MaxOps
    /\ nops' = nops + 1
    /\ op' = [call EXCEPT !.raised = r.raised,
                          !.returned = IF r.raised = "none" THEN "None" ELSE "nothing"]
    /\ objs' = [objs EXCEPT ![ref[h]] = r.obj]
    /\ UNCHANGED ref
    /\ UNCHANGED fvars

\* a = Style(**args)
Construct ==
    \E args \in CtorArgs :
        Bind("a", NewStyle(args), [Call("Style", "a") EXCEPT !.kwargs = args])

\* a = Style.from_dict(data)
FromDictCall ==
    \E data \in Dicts :
        Bind("a", FromDict(data), [Call("from_dict", "a") EXCEPT !.kwargs = data])

\* a = Style.load_from_template(name), the template directory holding `file`
\* under that name
LoadTemplate ==
    \E name \in TemplateNames : \E file \in FilesOf(name) :
        Bind("a", LoadFromTemplate(name, file),
             [Call("load_from_template", "a") EXCEPT !.template = name, !.file = file])

\* b = a.copy()
CopyCall ==
    /\ ref["a"] # Null
    /\ Bind("b", CopyObj(objs[ref["a"]]), Call("copy", "a"))

\* b = BannerGenerator(text, a).style: the generator holds the caller's object
Hold ==
    /\ ref["a"] # Null
    /\ nops < MaxOps
    /\ nops' = nops + 1
    /\ op' = [Call("hold", "a") EXCEPT !.returned = "None"]
    /\ ref' = [ref EXCEPT !["b"] = ref["a"]]
    /\ UNCHANGED objs
    /\ UNCHANGED fvars

\* b = Style.from_dict(a.to_dict())
RoundTrip ==
    /\ ref["a"] # Null
    /\ Bind("b", RoundTripObj(objs[ref["a"]]),
            [Call("round_trip", "a") EXCEPT !.kwargs = ToDict(objs[ref["a"]].f)])

\* h.update(**kwargs)
UpdateCall ==
    \E h \in Holders : \E kwargs \in UpdateKwargs :
        /\ ref[h] # Null
        /\ Mutate(h, UpdateObj(objs[ref[h]], kwargs),
                  [Call("update", h) EXCEPT !.kwargs = kwargs])

\* h.apply_color_scheme(scheme)
ApplyScheme ==
    \E h \in Holders : \E scheme \in SchemeArgs :
        /\ ref[h] # Null
        /\ Mutate(h, ApplyColorScheme(objs[ref[h]], scheme),
                  [Call("apply_color_scheme", h) EXCEPT !.scheme = scheme])

NextStyling == Styling

Next ==
    \/ Render
    \/ Export

NextBorder == RenderBorder

NextStyle ==
    \/ Construct
    \/ FromDictCall
    \/ LoadTemplate
    \/ CopyCall
    \/ Hold
    \/ RoundTrip
    \/ UpdateCall
    \/ ApplyScheme

SpecLayout == InitLayout /\ [][NextStyling]_vars

SpecColor == InitColor /\ [][NextStyling]_vars

Spec == Init /\ [][Next]_vars

SpecStyle == InitStyle /\ [][NextStyle]_vars

SpecBorder == InitBorder /\ [][NextBorder]_vars

----------------------------------------------------------------------------
(* Measures used by the properties *)

\* The non-printing elements of a line
Decorations == {ColorMap[n][1] : n \in DOMAIN ColorMap} \cup {RESET_ALL[1]}

\* Number of columns a line occupies on screen
VisibleLen(line) == Cardinality({i \in DOMAIN line : line[i] \notin Decorations})

IsBlank(line) == \A i \in DOMAIN line : line[i] \in Whitespace

Styled == pc = "styled"

----------------------------------------------------------------------------
(* Properties of the layout transforms, under SpecLayout *)

\* C1: for every style with border != none or padding > 0, every line of the
\* composed output has the same visible length; the blank lines that padding
\* inserts are as wide as the padded content lines.
C1_Rectangular ==
    (Styled /\ (style.border # BorderNONE \/ style.padding > 0)) =>
        \A i, j \in DOMAIN stage.colored :
            VisibleLen(stage.colored[i]) = VisibleLen(stage.colored[j])

\* C2: padding p > 0 turns a block into one of height + 2p lines whose maximum
\* line width is maxWidth + 2p, the original lines kept in order, each between
\* p spaces.
C2_PaddingAdditive ==
    (Styled /\ style.padding > 0) =>
        LET p   == style.padding
            in  == stage.compacted
            out == stage.padded
        IN  /\ Len(out) = Len(in) + 2 * p
            /\ MaxWidth(out) = MaxWidth(in) + 2 * p
            /\ \A i \in DOMAIN in :
                  /\ Len(out[p + i]) = Len(in[i]) + 2 * p
                  /\ SubSeq(out[p + i], p + 1, p + Len(in[i])) = in[i]
                  /\ \A k \in 1..p : out[p + i][k] = SP /\ out[p + i][p + Len(in[i]) + k] = SP

\* C3: framing a non-empty block with a border other than none gives height + 2
\* lines, each exactly maxWidth + 4 long: the top rule, every line between
\* `v ' '` and `' ' v` right-padded to maxWidth, the bottom rule.
C3_BorderAdditive ==
    (Styled /\ style.border # BorderNONE /\ stage.padded # << >>) =>
        LET in  == stage.padded
            out == stage.framed
            w   == MaxWidth(in)
            g   == Borders[style.border]
            n   == Len(in)
        IN  /\ Len(out) = n + 2
            /\ \A i \in DOMAIN out : Len(out[i]) = w + 4
            /\ out[1][1] = g.tl[1] /\ out[1][w + 4] = g.tr[1]
            /\ out[n + 2][1] = g.bl[1] /\ out[n + 2][w + 4] = g.br[1]
            /\ \A k \in 2..(w + 3) : out[1][k] = g.h[1] /\ out[n + 2][k] = g.h[1]
            /\ \A i \in 1..n :
                  /\ out[i + 1][1] = g.v[1] /\ out[i + 1][w + 4] = g.v[1]
                  /\ out[i + 1][2] = SP /\ out[i + 1][w + 3] = SP
                  /\ SubSeq(out[i + 1], 3, 2 + Len(in[i])) = in[i]
                  /\ \A k \in (3 + Len(in[i]))..(w + 2) : out[i + 1][k] = SP

\* C4: with padding p > 0 and a border, the output has
\* height(compacted glyph lines) + 2p + 2 lines, each maxWidth + 2p + 4 wide.
C4_PadThenFrame ==
    (Styled /\ style.padding > 0 /\ style.border # BorderNONE) =>
        /\ Len(stage.colored) = Len(stage.compacted) + 2 * style.padding + 2
        /\ \A i \in DOMAIN stage.colored :
              VisibleLen(stage.colored[i]) =
                  MaxWidth(stage.compacted) + 2 * style.padding + 4

\* C5: compacting keeps exactly the lines that are not blank, in their order;
\* it is idempotent and leaves a block without blank lines unchanged.
C5_Compact ==
    (Styled /\ style.compact) =>
        /\ stage.compacted = SelectSeq(stage.split, LAMBDA l : ~IsBlank(l))
        /\ Compact(stage.compacted) = stage.compacted
        /\ (\A i \in DOMAIN stage.split : ~IsBlank(stage.split[i])) =>
              stage.compacted = stage.split

\* A state where framing acted on a ragged block
C3_Witness ==
    /\ Styled /\ style.border = BorderDOUBLE
    /\ \E i, j \in DOMAIN stage.padded : Len(stage.padded[i]) < Len(stage.padded[j])
    /\ Len(stage.framed) = Len(stage.padded) + 2

\* A state where compacting dropped a whitespace-only line and kept an inked one
C5_Witness ==
    /\ Styled /\ style.compact
    /\ \E i \in DOMAIN stage.split : stage.split[i] # << >> /\ IsBlank(stage.split[i])
    /\ stage.compacted # << >>
    /\ Len(stage.compacted) < Len(stage.split)

----------------------------------------------------------------------------
(* Properties of color assignment, under SpecColor *)

\* The stops of a gradient spec as written: what follows the prefix, split at
\* the dashes
WrittenStops(color) == SplitOn(Tail(color), DASH)

\* C6: colorization returns as many lines, in the same order, each the input
\* line between a non-printing prefix and the reset suffix, for every color
\* spec; the visible length of each line is preserved.
C6_ColorPreserves ==
    (Styled /\ Truthy(style.color)) =>
        /\ Len(stage.colored) = Len(stage.framed)
        /\ \A i \in DOMAIN stage.framed :
              /\ \E code \in {<< >>} \cup {ColorMap[n] : n \in DOMAIN ColorMap} :
                    stage.colored[i] = code \o stage.framed[i] \o RESET_ALL
              /\ VisibleLen(stage.colored[i]) = VisibleLen(stage.framed[i])

C6_Witness ==
    /\ Styled
    /\ style.color = << GRADIENT, "zz", DASH, "red", DASH, "yellow" >>
    /\ Len(stage.framed) >= 2
    /\ stage.colored # stage.framed

\* C7: for gradient:a-b with a and b in the palette and a block of n lines,
\* the first floor(n/2) lines carry a's decoration and the others b's.
C7_Bisection ==
    (/\ Styled
     /\ Len(style.color) = 4
     /\ style.color[1] = GRADIENT /\ style.color[3] = DASH
     /\ style.color[2] \in DOMAIN ColorMap /\ style.color[4] \in DOMAIN ColorMap) =>
        LET n == Len(stage.framed)
            a == ColorMap[style.color[2]]
            b == ColorMap[style.color[4]]
        IN  /\ Len(stage.colored) = n
            /\ \A i \in 1..n :
                  /\ (2 * i <= n) => stage.colored[i] = a \o stage.framed[i] \o RESET_ALL
                  /\ (2 * i > n) => stage.colored[i] = b \o stage.framed[i] \o RESET_ALL

\* The 10-line block under gradient:red-yellow
C7_Witness ==
    /\ Styled
    /\ style.color = << GRADIENT, "red", DASH, "yellow" >>
    /\ Len(stage.framed) = 10
    /\ \A i \in 1..5 : Head(stage.colored[i]) = ColorMap["red"][1]
    /\ \A i \in 6..10 : Head(stage.colored[i]) = ColorMap["yellow"][1]

\* C8: a gradient spec with a stop that is no palette name, or without exactly
\* two stops, decorates every line with the first stop's color, or with no
\* color if the first stop is unknown.
C8_Degenerate ==
    (/\ Styled
     /\ IsGradient(style.color)
     /\ \/ Len(WrittenStops(style.color)) # 2
        \/ \E k \in DOMAIN WrittenStops(style.color) :
              ~InColorMap(WrittenStops(style.color)[k], ColorMap)) =>
        /\ Len(stage.colored) = Len(stage.framed)
        /\ \A i \in DOMAIN stage.framed :
              stage.colored[i] =
                  GetColor(WrittenStops(style.color)[1], ColorMap)
                      \o stage.framed[i] \o RESET_ALL

\* C9: a plain color name outside the palette returns the lines with nothing
\* added.
C9_UnknownPassThrough ==
    (/\ Styled
     /\ Truthy(style.color)
     /\ ~IsGradient(style.color)
     /\ ~InColorMap(style.color, ColorMap)) =>
        stage.colored = stage.framed

----------------------------------------------------------------------------
(* Properties of the facade, under Spec *)

HasInk(art) == \E i \in DOMAIN art : art[i] \notin Whitespace

LastOutcome == figlet[calls[Len(calls)].font]

AfterRender == pc \in {"returned", "raised"} /\ calls # << >>

\* C11: if the fallback attempt fails, or the first attempt fails with
\* anything other than font-not-found, the failure leaves render: nothing is
\* returned and no further attempt is made.
C11_AllOrNothing ==
    AfterRender =>
        /\ (LastOutcome.status # "ok") <=> (pc = "raised")
        /\ (figlet[calls[1].font].status = "FigletError") => Len(calls) = 1
        /\ (figlet[calls[1].font].status = "FontNotFound"
                /\ figlet["standard"].status # "ok") =>
              pc = "raised" /\ Len(calls) = 2
        /\ (pc = "returned") =>
              styled_output = Join(ApplyStyling(LastOutcome.art, render_style).colored)

\* The fallback font itself is missing: the second attempt's failure leaves render
C11_Witness ==
    /\ pc = "raised"
    /\ Len(calls) = 2
    /\ figlet["standard"].status = "FontNotFound"

\* The lines of the glyph block
GlyphHeight(art) == Len(Split(art))

\* The block render returned, without its decorations, has the geometry of
\* the end-to-end example: top rule, bottom rule, glyph lines + 2*1 + 2 lines
EndToEndGeometry ==
    LET out == Split(SelectSeq(styled_output, LAMBDA c : c \notin Decorations))
        n   == Len(out)
        w   == Len(out[1])
        g   == Borders[BorderSINGLE]
    IN  /\ n = GlyphHeight(ascii_art) + 2 * 1 + 2
        /\ w >= 4 /\ Len(out[n]) = w
        /\ out[1][1] = g.tl[1] /\ out[1][w] = g.tr[1]
        /\ out[n][1] = g.bl[1] /\ out[n][w] = g.br[1]
        /\ \A k \in 2..(w - 1) : out[1][k] = g.h[1] /\ out[n][k] = g.h[1]

FreshRender(rs, fig) == RenderCall(rs, NoKwargs, fig, None, None, NoStage)

\* C13: the string render returns for an effective style does not depend on
\* the render calls made before it: it is the string a generator that never
\* rendered returns for that style, and equal effective styles gave equal
\* strings throughout.
C13_Deterministic ==
    /\ \A p, q \in seen : p[1] = q[1] => p[2] = q[2]
    /\ \A p \in seen : p[2] = FreshRender(p[1], figlet).styled_output

\* Two different effective styles have been rendered, then one of them again
C13_Witness ==
    /\ pc = "returned"
    /\ \E p, q \in seen : p[1] # q[1] /\ p[2] # q[2] /\ q[1] = render_style
    /\ Cardinality(seen) >= 3

-----------------------------------------------------------------------------
(* Properties of Style *)

\* The object holder h holds, and the object it held before the last call
Held(h) == objs[ref[h]]
HeldBefore(h) == op.pre[op.preref[h]]

Bound == {h \in Holders : ref[h] # Null}

Normalized(f) ==
    /\ f.border \in BorderStyle
    /\ f.alignment \in {"left", "center", "right"}

\* C14: after any sequence of construction, copy, update, from_dict,
\* load_from_template and apply_color_scheme calls, a style's border is one of
\* the eight BorderStyle members and its alignment is left, center or right.
C14_Normalized == \A h \in Bound : Normalized(Held(h).f)

\* A constructor call whose border argument is acceptable, with an alignment
\* string among its arguments
ConstructedWithAlignment ==
    /\ op.name \in {"Style", "from_dict"}
    /\ DOMAIN op.kwargs \subseteq Fields
    /\ "alignment" \in DOMAIN op.kwargs
    /\ IsStr(op.kwargs.alignment)
    /\ "border" \in DOMAIN op.kwargs =>
          \/ op.kwargs.border \in BorderStyle \cup DOMAIN BorderValues
          \/ op.name = "from_dict"

\* C15: constructing a Style with an alignment string that is not left, center
\* or right in any letter case does not fail and gives alignment 'left'; a
\* recognised alignment in any letter case is stored in lower case.
C15_AlignmentFallback ==
    ConstructedWithAlignment =>
        LET given == op.kwargs.alignment
            got   == Held("a").f.alignment
        IN  /\ op.raised = "none"
            /\ given \in {"left", "Left", "LEFT"} => got = "left"
            /\ given \in {"center", "Center", "CENTER"} => got = "center"
            /\ given \in {"right", "Right", "RIGHT"} => got = "right"
            /\ given \notin {"left", "Left", "LEFT", "center", "Center", "CENTER",
                             "right", "Right", "RIGHT"} => got = "left"

C15_Witness ==
    /\ ConstructedWithAlignment
    /\ op.kwargs.alignment = "MIDDLE"
    /\ Held("a").f.alignment = "left"

\* C16: the clone copy returns is field-by-field equal to the original, and a
\* later change made through one of the two leaves the other as it was.
C16_CopyValue ==
    /\ op.name = "copy" =>
          /\ op.raised = "none"
          /\ ref["b"] # ref["a"]
          /\ Held("b").f = Held("a").f
    /\ \A h \in Bound :
          (/\ op.name \in {"update", "apply_color_scheme"}
           /\ ref[h] # ref[op.holder]) => Held(h) = HeldBefore(h)

\* C17: update(partial) sets exactly the named Style fields, leaves every other
\* field as it was, and ignores the names that are no Style field without
\* failing.
C17_UpdateExact ==
    op.name = "update" =>
        /\ op.raised = "none"
        /\ Held(op.holder).f =
              [f \in Fields |-> IF f \in DOMAIN op.kwargs THEN op.kwargs[f]
                                ELSE HeldBefore(op.holder).f[f]]
        /\ Held(op.holder).shadow = HeldBefore(op.holder).shadow

CatalogStyle(name) ==
    [f \in Fields |->
        IF f \notin DOMAIN DefaultTemplates[name] THEN DefaultStyle[f]
        ELSE IF f = "border" THEN BorderValues[DefaultTemplates[name].border]
        ELSE DefaultTemplates[name][f]]

CatalogResolved ==
    /\ op.raised = "none"
    /\ op.returned = "Style"
    /\ Held("a").f = CatalogStyle(op.template)
    /\ op.template = "corporate" =>
          /\ Held("a").f.font = "standard"
          /\ Held("a").f.border = BorderDOUBLE
          /\ Held("a").f.color = << "blue" >>
          /\ Held("a").f.padding = 2
          /\ Held("a").f.alignment = "center"

\* C19 as written: for every built-in name load_from_template returns the
\* Style of the catalog entry.
C19_Catalog ==
    (op.name = "load_from_template" /\ op.template \in DOMAIN DefaultTemplates)
        => CatalogResolved

\* C19, amended: ... provided the template directory holds no file of that name.
C19_CatalogNoFile ==
    (/\ op.name = "load_from_template"
     /\ op.template \in DOMAIN DefaultTemplates
     /\ ~op.file.exists) => CatalogResolved

C19_Witness ==
    /\ op.name = "load_from_template"
    /\ op.template = "corporate"
    /\ ~op.file.exists
    /\ Held("a").f.border = BorderDOUBLE
    /\ Held("a").f.width = 80

\* C20: a name that is neither a template file nor a built-in template raises
\* the not-found error; no Style is returned and nothing is substituted.
C20_NotFound ==
    (/\ op.name = "load_from_template"
     /\ op.template \notin DOMAIN DefaultTemplates
     /\ ~op.file.exists) =>
        /\ op.raised = "FileNotFoundError"
        /\ op.returned = "nothing"
        /\ objs = op.pre
        /\ ref = op.preref

C20_Witness ==
    /\ op.name = "load_from_template"
    /\ op.template = "nosuch"
    /\ op.raised = "FileNotFoundError"
    /\ nops = 2
    /\ Held("a").f.font = "slant"

SchemeFields == {"color", "border_color", "shadow_color", "shadow"}

\* C21: applying a color scheme changes at most color, border_color,
\* shadow_color and shadow; every other field keeps its value, for every
\* scheme and every starting style.
C21_SchemeFrame ==
    op.name = "apply_color_scheme" =>
        \A f \in Fields \ SchemeFields :
            Held(op.holder).f[f] = HeldBefore(op.holder).f[f]

\* A scheme applied to a style whose other fields are not the defaults
C21_Witness ==
    /\ op.name = "apply_color_scheme" /\ op.raised = "none"
    /\ op.scheme = "ColorScheme.FOREST"
    /\ Held(op.holder).f.color = Grad("green", "bright_green")
    /\ Held(op.holder).f.padding = 2
    /\ Held(op.holder).f.border = BorderDOUBLE

\* C22: applying a scheme that has no entry in the scheme table raises an
\* error instead of silently doing nothing.
C22_SchemeNotFound ==
    (op.name = "apply_color_scheme" /\ op.scheme \notin DOMAIN Schemes) =>
        op.raised # "none"

\* C29: a scheme sets exactly the fields its table entry lists and keeps the
\* previous value of every other field, so a field only an earlier scheme
\* lists survives a later scheme; applying a scheme twice equals applying it
\* once.
C29_SchemeOverlay ==
    /\ (op.name = "apply_color_scheme" /\ op.raised = "none"
            /\ op.scheme \in DOMAIN Schemes) =>
          /\ \A f \in Fields :
                Held(op.holder).f[f] =
                    IF f \in DOMAIN Schemes[op.scheme] THEN Schemes[op.scheme][f]
                    ELSE HeldBefore(op.holder).f[f]
          /\ (op.scheme = "ColorScheme.MONOCHROME" /\ HeldBefore(op.holder).f.shadow)
                => Held(op.holder).f.shadow
    /\ \A h \in Bound : \A sch \in ColorScheme :
          LET once == ApplyColorScheme(Held(h), sch)
          IN  ApplyColorScheme(once.obj, sch) = once

\* MONOCHROME applied after NEON: shadow stays on
C29_Witness ==
    /\ op.name = "apply_color_scheme" /\ op.raised = "none"
    /\ op.scheme = "ColorScheme.MONOCHROME"
    /\ HeldBefore(op.holder).f.border_color = << "bright_magenta" >>
    /\ Held(op.holder).f.shadow
    /\ Held(op.holder).f.color = << "white" >>

\* C30: for a style whose border is a BorderStyle member,
\* from_dict(s.to_dict()) is field-by-field equal to s, to_dict gives the border
\* as its string value, and s is not changed.
C30_RoundTrip ==
    (op.name = "round_trip" /\ HeldBefore("a").f.border \in BorderStyle) =>
        /\ op.raised = "none"
        /\ op.kwargs.border \in DOMAIN BorderValues
        /\ BorderValues[op.kwargs.border] = HeldBefore("a").f.border
        /\ Held("b").f = Held("a").f
        /\ Held("a") = HeldBefore("a")

-----------------------------------------------------------------------------
(* Properties of the exporters and of render's overrides *)

\* C23: after an exporter's color-less render, the generator's style.color is
\* what it was before the call, also when the render call inside it raised.
C23_ColorRestored ==
    last.call \in Exporters => style.color = last.style.color

Plain(text) == \A i \in DOMAIN text : text[i] \notin Decorations

Strip_Decorations(text) == SelectSeq(text, LAMBDA c : c \notin Decorations)

\* get_raw_output returned a string
RawReturned == last.call = "get_raw_output" /\ last.result = "returned"

\* What render gives for the style the generator had before the last call
ColoredRender == FreshRender(last.style, figlet).returned

\* C24 as written: get_raw_output returns the string render produces for the
\* same style with color unset, without any color decoration, and it is
\* non-empty whenever the colored render is non-empty.
C24_RawOutputNonEmpty ==
    RawReturned =>
        /\ last.returned = FreshRender([last.style EXCEPT !.color = None], figlet).returned
        /\ Plain(last.returned)
        /\ ColoredRender # << >> => last.returned # << >>

\* C24, amended: ... and it is the colored render without its decorations, so
\* non-empty whenever the colored render has a character that is no decoration.
C24_RawOutput ==
    RawReturned =>
        /\ last.returned = FreshRender([last.style EXCEPT !.color = None], figlet).returned
        /\ Plain(last.returned)
        /\ last.returned = Strip_Decorations(ColoredRender)
        /\ ~Plain(ColoredRender) /\ Strip_Decorations(ColoredRender) # << >>
              => last.returned # << >>

C24_Witness ==
    /\ RawReturned
    /\ last.style.color = << "red" >>
    /\ last.style.border = BorderSINGLE
    /\ last.returned # << >>
    /\ ~Plain(ColoredRender)

\* C25: render applies its overrides to a private copy: generator.style is
\* after the call what it was before, and a render without overrides uses it.
C25_PrivateCopy ==
    last.call = "render" =>
        /\ style = last.style
        /\ pc = "returned" =>
              \A f \in Fields :
                  render_style[f] = IF f \in DOMAIN last.kwargs THEN last.kwargs[f]
                                    ELSE style[f]

\* render() after a render with overrides
C25_Witness ==
    /\ last.call = "render" /\ last.kwargs = NoKwargs /\ pc = "returned"
    /\ render_style = style
    /\ \E p \in seen : p[1].font # style.font /\ p[1].padding # style.padding

\* C26: render(border=<name>) returns the block rendered with the border
\* given as the BorderStyle member of that name; render(border='none') adds
\* no line and no column.
C26_BorderByName ==
    (last.call = "render" /\ pc = "returned" /\ "border" \in DOMAIN last.kwargs) =>
        last.returned =
            FreshRender([last.style EXCEPT !.border = BorderValues[last.kwargs.border]],
                        figlet).returned

\* C27: every call of the glyph renderer made by render, the retry with the
\* fallback font included, passes the style's width and alignment.
C27_RendererArgs ==
    AfterRender =>
        \A i \in DOMAIN calls :
            /\ calls[i].width = render_style.width
            /\ calls[i].justify = render_style.alignment

\* BannerGenerator.to_dict (the text is not part of the model)
GeneratorToDict == [style |-> ToDict(style), output |-> styled_output]

\* C28: to_dict()['output'] is None before the first render and afterwards the
\* string the latest render call that returned gave (an exporter's uncolored
\* block included); a render that raised leaves it as it was.
C28_LastRender ==
    /\ last.call = "none" => GeneratorToDict.output = None
    /\ GeneratorToDict.output = last.rendered
    /\ last.result \in {"raised", "False"} => GeneratorToDict.output = last.output
    /\ last.result = "returned" => GeneratorToDict.output = last.returned
    /\ (last.call \in Exporters /\ last.result = "returned")
          => Plain(GeneratorToDict.output)

\* An exporter rendered without color on a generator whose style has a color
C28_Witness ==
    /\ last.call \in Exporters /\ last.result = "returned"
    /\ style.color = << "red" >>
    /\ GeneratorToDict.output # << >>
    /\ last.output # None /\ ~Plain(last.output)

====
